---- MODULE Spec2Model ----
(***************************************************************************)
(* The node controller of kube-fencing (pkg/controller/node): Reconcile,   *)
(* the deferred timer it spawns, and the cluster objects it reads and      *)
(* writes (one Node, its PodTemplates, its fencing Jobs).                  *)
(***************************************************************************)
EXTENDS Integers, Sequences, FiniteSets, TLC

VARIABLES
    nodeExists,   \* the Node object is in the store
    ann,          \* the Node's annotations (map[string]string)
    conds,        \* the Node's status.conditions, in order
    jobs,         \* the Jobs of the namespace: name -> status.conditions (types, in order)
    timers,       \* the sleeping goroutines of lines 215-227: the times they wake up at
    now,          \* time.Now().Unix()
    pendingAt,    \* history: the timestamp written by the last pending patch still in force
    pass,         \* history: what the last Reconcile call (or timer) read and did
    queue,        \* the node's key is in the controller's work queue
    built         \* a PodTemplate and the Job newJobForNode builds from it for the node

vars == <<nodeExists, ann, conds, jobs, timers, now, pendingAt, pass, queue, built>>

\* ---------------------------------------------------------------- bounds

\* How many seconds the clock may advance.
MaxTicks == 2

\* The positive grace period used as fencing/timeout, in seconds.
GraceSecs == 2

\* The wall clock the run starts at: far larger than any timeout, as Unix time is.
StartTime == 10 * GraceSecs

\* The integers the decimal conversions are modelled on.
IntRange == 0..(StartTime + MaxTicks + GraceSecs)

\* ------------------------------------------------------------- constants

NodeName == "n1"

StateKey == "fencing/state"

TimestampKey == "fencing/timestamp"

EnabledKey == "fencing/enabled"

TemplateKey == "fencing/template"

TimeoutKey == "fencing/timeout"

NodeStatusUnknown == "NodeStatusUnknown"

EmptyMap == [k \in {} |-> ""]

\* map[string]string lookup: a missing key reads as "".
Lookup(m, k) == IF k \in DOMAIN m THEN m[k] ELSE ""

\* strconv.FormatInt(n, 10)
FormatInt(n) == ToString(n)

\* strconv.ParseInt(s, 10, 64) and strconv.Atoi(s): the value, and 0 with an error
\* for a string that is no decimal number (the empty string included).
ParseInt(s) ==
    IF \E n \in IntRange : ToString(n) = s
    THEN [val |-> CHOOSE n \in IntRange : ToString(n) = s, ok |-> TRUE]
    ELSE [val |-> 0, ok |-> FALSE]

\* A JSON merge patch of metadata.annotations: keys set, keys set to null.
MergePatch(m, p) ==
    [k \in (DOMAIN m \cup DOMAIN p.set) \ p.del |->
        IF k \in DOMAIN p.set THEN p.set[k] ELSE m[k]]

\* ------------------------------------------------------ cluster objects

\* An empty v1.PodTemplate{}: what Get leaves behind when it fails.
EmptyTemplate == [annotations |-> EmptyMap, podName |-> "", podAnnotations |-> EmptyMap]

\* The PodTemplates of the namespace: the default one (no timeout annotation, no pod
\* name) and one that sets both.
Templates ==
    [n \in {"fencing", "custom"} |->
        IF n = "fencing"
        THEN [annotations |-> EmptyMap, podName |-> "", podAnnotations |-> EmptyMap]
        ELSE [annotations |-> (TimeoutKey :> FormatInt(GraceSecs)), podName |-> "kill",
              podAnnotations |-> EmptyMap]]

\* The values an operator gives the node's own annotations.
EnabledValues == {"true", "false"}

TemplateValues == {"custom", "missing"}

TimeoutValues == {"0", FormatInt(GraceSecs), "soon"}

Condition(t, s, r) == [type |-> t, status |-> s, reason |-> r]

\* The status.conditions lists the node goes through: no Ready condition yet, Ready
\* as the kubelet posts it, and Unknown as the node lifecycle controller marks a
\* node it no longer hears from.
ConditionLists ==
    { <<Condition("MemoryPressure", "False", "KubeletHasSufficientMemory")>> }
    \cup
    { <<Condition("MemoryPressure", "False", "KubeletHasSufficientMemory"), c>> :
        c \in { Condition("Ready", "True", "KubeletReady"),
                Condition("Ready", "False", "KubeletNotReady"),
                Condition("Ready", "Unknown", NodeStatusUnknown) } }

\* GetNodeCondition and GetJobCondition: the index of the first condition of the
\* type (1-based), 0 when there is none (Go: -1 and nil).
GetCondition(cs, type) ==
    IF \E i \in 1..Len(cs) : cs[i].type = type
    THEN CHOOSE i \in 1..Len(cs) :
            /\ cs[i].type = type
            /\ \A j \in 1..(i - 1) : cs[j].type # type
    ELSE 0

GetNodeCondition(cs, type) == GetCondition(cs, type)

GetJobCondition(cs, type) == GetCondition(cs, type)

\* newJobForNode: the name of the Job built for the node from the template.
JobName(tmpl) ==
    LET prefix == IF tmpl.podName = "" THEN "fence" ELSE tmpl.podName
    IN prefix \o "-" \o NodeName

\* The annotations newJobForNode starts from.
ModeKey == "fencing/mode"

IdKey == "fencing/id"

AfterHookKey == "fencing/after-hook"

NodeKey == "fencing/node"

DefaultAnnotations ==
    (ModeKey :> "flush") @@ (TemplateKey :> "fencing") @@ (TimeoutKey :> "0")

\* A precedence the loop over the defaults does not have: the template's value over
\* the node's.
OverrideDefaultsTemplateLast(nodeAnn, tmplAnn) ==
    [k \in DOMAIN DefaultAnnotations |->
        IF k \in DOMAIN tmplAnn THEN tmplAnn[k]
        ELSE IF k \in DOMAIN nodeAnn THEN nodeAnn[k]
        ELSE DefaultAnnotations[k]]

\* The loop over the defaults: the template's value replaces the default, then the
\* node's value replaces either.
OverrideDefaults(nodeAnn, tmplAnn) ==
    [k \in DOMAIN DefaultAnnotations |->
        IF k \in DOMAIN nodeAnn THEN nodeAnn[k]
        ELSE IF k \in DOMAIN tmplAnn THEN tmplAnn[k]
        ELSE DefaultAnnotations[k]]

\* Every annotation of the template's embedded pod is copied over what is there.
AppendPodAnnotations(a, podAnn) ==
    [k \in DOMAIN a \cup DOMAIN podAnn |->
        IF k \in DOMAIN podAnn THEN podAnn[k] ELSE a[k]]

\* fencing/node and fencing/id are always set, fencing/after-hook when the node or
\* the template has it (the template's value written last).
IdentifyNode(a, nodeAnn, tmplAnn) ==
    LET id == IF IdKey \in DOMAIN nodeAnn THEN nodeAnn[IdKey]
              ELSE IF IdKey \in DOMAIN tmplAnn THEN tmplAnn[IdKey]
              ELSE NodeName
        hook == IF AfterHookKey \in DOMAIN tmplAnn
                THEN (AfterHookKey :> tmplAnn[AfterHookKey])
                ELSE IF AfterHookKey \in DOMAIN nodeAnn
                THEN (AfterHookKey :> nodeAnn[AfterHookKey])
                ELSE EmptyMap
    IN hook @@ (NodeKey :> NodeName) @@ (IdKey :> id) @@ a

\* newJobForNode: the Job built for the node from the template.
newJobForNode(nodeAnn, tmpl) ==
    [name |-> JobName(tmpl),
     labels |-> ("node" :> NodeName) @@ ("fencing" :> "fence"),
     annotations |->
        IdentifyNode(
            AppendPodAnnotations(OverrideDefaults(nodeAnn, tmpl.annotations),
                                 tmpl.podAnnotations),
            nodeAnn, tmpl.annotations)]

\* Maps that give each key of a set its value or leave it out.
Choices(vals) == UNION { {[k \in S |-> vals[k]]} : S \in SUBSET DOMAIN vals }

\* The annotations a node, a PodTemplate and its embedded pod are given.
BuilderNodeAnnotations ==
    Choices((ModeKey :> "reboot") @@ (IdKey :> "rack7") @@ (AfterHookKey :> "uncordon")
            @@ (TimeoutKey :> FormatInt(GraceSecs)))

BuilderTemplateAnnotations ==
    Choices((ModeKey :> "none") @@ (IdKey :> "shelf3") @@ (AfterHookKey :> "fencing-after"))

BuilderPodAnnotations == Choices((ModeKey :> "delete") @@ ("app" :> "fence"))

BuilderTemplates ==
    [annotations : BuilderTemplateAnnotations, podName : {"", "kill"},
     podAnnotations : BuilderPodAnnotations]

\* No Job built yet.
NoJob == [name |-> "", labels |-> EmptyMap, annotations |-> EmptyMap]

NotBuilt == [tmpl |-> EmptyTemplate, job |-> NoJob]

\* ------------------------------------------------------------- API calls

NoPatch == [set |-> EmptyMap, del |-> {}]

\* One call of a pass: res is "ok", "notfound" or "error".
Op(kind, patch, job, at, res) ==
    [kind |-> kind, patch |-> patch, job |-> job, at |-> at, res |-> res]

\* What a Reconcile call carries along: the store as its calls leave it, and the
\* calls it has made.
World == [ann |-> ann, jobs |-> jobs, timers |-> timers, ops |-> <<>>]

Logged(w, op) == [w EXCEPT !.ops = Append(@, op)]

\* r.client.Patch(node, mergePatch), done or failed
DoPatch(w, p, ok) ==
    Logged([w EXCEPT !.ann = IF ok THEN MergePatch(@, p) ELSE @],
           Op("patch", p, "", 0, IF ok THEN "ok" ELSE "error"))

\* r.client.Delete(found), done or failed
DoDelete(w, name, ok) ==
    Logged([w EXCEPT !.jobs = IF ok THEN [n \in DOMAIN @ \ {name} |-> @[n]] ELSE @],
           Op("delete", NoPatch, name, 0, IF ok THEN "ok" ELSE "error"))

\* r.client.Create(job), done or failed; the store refuses a name that is taken.
DoCreate(w, name, ok) ==
    LET done == ok /\ name \notin DOMAIN w.jobs
    IN Logged([w EXCEPT !.jobs = IF done THEN (name :> <<>>) @@ @ ELSE @],
              Op("create", NoPatch, name, 0, IF done THEN "ok" ELSE "error"))

\* A goroutine that would wake up after the clock's last second is never seen to
\* run, and is not kept.
Sleeping(at) == IF at <= StartTime + MaxTicks THEN {at} ELSE {}

\* go func() { time.Sleep(remainTime) ... }
DoArm(w, at) ==
    Logged([w EXCEPT !.timers = @ \cup Sleeping(at)], Op("arm", NoPatch, "", at, "ok"))

\* r.client.Get of a Job by name
DoGetJob(w, name, res) == Logged(w, Op("getJob", NoPatch, name, 0, res))

\* return reconcile.Result{}, err
Return(w, err) ==
    [ann |-> w.ann, jobs |-> w.jobs, timers |-> w.timers, ops |-> w.ops, err |-> err]

\* ------------------------------------------------------------- Reconcile
\* Every operator below gives the SET of ways the code it models can end, one for
\* each outcome of the API calls it makes.

\* A recovery patch that forgets the timestamp.
RecoverPatchStateOnly == [set |-> EmptyMap, del |-> {StateKey}]

\* lines 102-109
RecoverPatch == [set |-> EmptyMap, del |-> {StateKey, TimestampKey}]

\* lines 196-203
PendingPatch(t) ==
    [set |-> (StateKey :> "pending") @@ (TimestampKey :> FormatInt(t)), del |-> {}]

\* A timer patch that takes the state away with the timestamp.
TimerPatchClearsState == [set |-> EmptyMap, del |-> {StateKey, TimestampKey}]

\* lines 219-225
TimerPatch == [set |-> EmptyMap, del |-> {TimestampKey}]

\* A started patch that leaves the timestamp behind.
StartedPatchKeepsTimestamp == [set |-> (StateKey :> "started"), del |-> {}]

\* A started patch that declares the node fenced.
StartedPatchFenced == [set |-> (StateKey :> "fenced"), del |-> {TimestampKey}]

\* lines 233-240
StartedPatch == [set |-> (StateKey :> "started"), del |-> {TimestampKey}]

\* lines 285-293
CreateJob(w, job) ==
    { LET w1 == DoCreate(w, job, ok)
      IN Return(w1, w1.ops[Len(w1.ops)].res # "ok") : ok \in BOOLEAN }

\* The test of lines 270 inverted: running only once a condition is there.
StillRunningInverted(cs) ==
    GetJobCondition(cs, "Complete") # 0 \/ GetJobCondition(cs, "Failed") # 0

\* A job counts as running only once it has reported a condition.
StillRunningOnceReported(cs) ==
    Len(cs) > 0 /\ GetJobCondition(cs, "Complete") = 0 /\ GetJobCondition(cs, "Failed") = 0

\* lines 268-274: neither a Complete nor a Failed condition
StillRunning(cs) ==
    GetJobCondition(cs, "Complete") = 0 /\ GetJobCondition(cs, "Failed") = 0

\* The previous job is not deleted before the new one is created.
CreateOverPrevious(w, job) == CreateJob(w, job)

\* The error of the Delete is not returned: the create follows all the same.
DeletePreviousIgnoringError(w, job) ==
    CreateJob(DoDelete(w, job, FALSE), job) \cup CreateJob(DoDelete(w, job, TRUE), job)

\* lines 276-283
DeletePrevious(w, job) ==
    {Return(DoDelete(w, job, FALSE), TRUE)} \cup CreateJob(DoDelete(w, job, TRUE), job)

\* lines 260-283, the Get of line 255 having returned no error or NotFound
Supervise(w, job) ==
    IF job \notin DOMAIN w.jobs THEN CreateJob(DoGetJob(w, job, "notfound"), job)
    ELSE IF StillRunning(w.jobs[job]) THEN {Return(DoGetJob(w, job, "ok"), FALSE)}
    ELSE DeletePrevious(DoGetJob(w, job, "ok"), job)

\* lines 253-293: fencing procedure started
Execution(w, job) ==
    {Return(DoGetJob(w, job, "error"), TRUE)} \cup Supervise(w, job)

\* lines 171-178
TimeoutStr(nodeAnn, tmpl) ==
    IF TimeoutKey \in DOMAIN nodeAnn THEN nodeAnn[TimeoutKey]
    ELSE IF TimeoutKey \in DOMAIN tmpl.annotations THEN tmpl.annotations[TimeoutKey]
    ELSE "0"

\* The return of line 246 is missing: the pass goes on to create the job.
StartAndLaunch(w) ==
    {Return(DoPatch(w, StartedPatch, FALSE), TRUE)}
    \cup CreateJob(DoPatch(w, StartedPatch, TRUE), JobName(EmptyTemplate))

\* lines 233-246
Start(w) ==
    { Return(DoPatch(w, StartedPatch, ok), ~ok) : ok \in BOOLEAN }

\* The elapsed time added instead of subtracted.
RemainTimeSignError(timeout, t, fencingTimestamp) == timeout + (t - fencingTimestamp)

\* line 213
RemainTime(timeout, t, fencingTimestamp) == timeout - (t - fencingTimestamp)

\* line 191
NoTimestampYet(fencingState, fencingTimestamp) ==
    fencingState = "" /\ fencingTimestamp = 0

\* The wait goes on at the very second the timeout has elapsed.
WaitInclusive(w, timeout, t, fencingTimestamp) ==
    LET remainTime == RemainTime(timeout, t, fencingTimestamp)
    IN IF remainTime >= 0 THEN {Return(DoArm(w, t + remainTime), FALSE)} ELSE Start(w)

\* lines 212-246
Wait(w, timeout, t, fencingTimestamp) ==
    LET remainTime == RemainTime(timeout, t, fencingTimestamp)
    IN IF remainTime > 0 THEN {Return(DoArm(w, t + remainTime), FALSE)} ELSE Start(w)

\* lines 186-231: a timeout is specified
Delay(w, nodeAnn, fencingState, timeout, t) ==
    LET fencingTimestamp == ParseInt(Lookup(nodeAnn, TimestampKey)).val
    IN IF NoTimestampYet(fencingState, fencingTimestamp)
       THEN {Return(DoPatch(w, PendingPatch(t), FALSE), TRUE)}
            \cup Wait(DoPatch(w, PendingPatch(t), TRUE), timeout, t, t)
       ELSE Wait(w, timeout, t, fencingTimestamp)

\* The error of Atoi is ignored and its 0 taken for the timeout.
ArmingIgnoringParseError(w, nodeAnn, tmpl, fencingState, t) ==
    LET timeout == ParseInt(TimeoutStr(nodeAnn, tmpl))
    IN IF timeout.val > 0 THEN Delay(w, nodeAnn, fencingState, timeout.val, t)
       ELSE Start(w)

\* lines 169-247: fencing procedure is not started yet
Arming(w, nodeAnn, tmpl, fencingState, t) ==
    LET timeout == ParseInt(TimeoutStr(nodeAnn, tmpl))
    IN IF ~timeout.ok THEN {Return(w, FALSE)}
       ELSE IF timeout.val > 0 THEN Delay(w, nodeAnn, fencingState, timeout.val, t)
       ELSE Start(w)

\* The previous job is looked up and left where it is.
CleanupWithoutDelete(w, job) ==
    {Return(DoGetJob(w, job, "error"), FALSE)}
    \cup (IF job \in DOMAIN w.jobs
          THEN {Return(DoGetJob(w, job, "ok"), FALSE)}
          ELSE {Return(DoGetJob(w, job, "notfound"), FALSE)})

\* lines 145-158: remove the previous fencing job
Cleanup(w, job) ==
    {Return(DoGetJob(w, job, "error"), FALSE)}
    \cup (IF job \in DOMAIN w.jobs
          THEN { Return(DoDelete(DoGetJob(w, job, "ok"), job, ok), FALSE) : ok \in BOOLEAN }
          ELSE {Return(DoGetJob(w, job, "notfound"), FALSE)})

\* line 161
Enabled(nodeAnn) == Lookup(nodeAnn, EnabledKey) = "true"

\* lines 142-293, with what the Get of line 136 left in podTemplate
WithTemplate(w, nodeAnn, tmpl, fencingState, t) ==
    LET job == JobName(tmpl)
    IN IF fencingState = "recovered" THEN Cleanup(w, job)
       ELSE IF ~Enabled(nodeAnn) THEN {Return(w, FALSE)}
       ELSE IF fencingState # "started"
            THEN Arming(w, nodeAnn, tmpl, fencingState, t)
            ELSE Execution(w, job)

\* lines 128-132
TemplateName(nodeAnn) ==
    IF TemplateKey \in DOMAIN nodeAnn THEN nodeAnn[TemplateKey] ELSE "fencing"

DoGetTemplate(w, name, res) == Logged(w, Op("getTemplate", NoPatch, name, 0, res))

\* lines 134-140: only NotFound stops the pass; any other error leaves the empty
\* template in podTemplate and the pass goes on.
FindTemplate(w, nodeAnn, fencingState, t) ==
    LET templateName == TemplateName(nodeAnn)
    IN WithTemplate(DoGetTemplate(w, templateName, "error"), nodeAnn, EmptyTemplate,
                    fencingState, t)
       \cup
       (IF templateName \notin DOMAIN Templates
        THEN {Return(DoGetTemplate(w, templateName, "notfound"), FALSE)}
        ELSE WithTemplate(DoGetTemplate(w, templateName, "ok"), nodeAnn,
                          Templates[templateName], fencingState, t))

\* Any fencing state is cleared once the node is Ready.
RecoveredFromAny(status, fencingState) == status = "True" /\ fencingState # ""

\* line 100
Recovered(status, fencingState) ==
    status = "True" /\ fencingState \in {"pending", "fenced"}

\* The fenced state is compared against the wrong word.
IgnoredMisspelt(fencingState) == fencingState = "fence"

\* line 119
Ignored(fencingState) == fencingState = "fenced"

\* Any node that is not reported Ready by its kubelet is taken for unreachable.
UnreachableOrNotReady(fencingState, reason) ==
    fencingState = "recovered" \/ reason # "KubeletReady"

\* line 124
Unreachable(fencingState, reason) ==
    fencingState = "recovered" \/ reason = NodeStatusUnknown

\* lines 118-143
Filter(w, nodeAnn, c, fencingState, t) ==
    IF Ignored(fencingState) THEN {Return(w, FALSE)}
    ELSE IF ~Unreachable(fencingState, c.reason) THEN {Return(w, FALSE)}
    ELSE FindTemplate(w, nodeAnn, fencingState, t)

\* lines 87-126
Triage(w, nodeAnn, c, t) ==
    LET fencingState == Lookup(nodeAnn, StateKey)
    IN IF Recovered(c.status, fencingState)
       THEN UNION { Filter(DoPatch(w, RecoverPatch, ok), nodeAnn, c, "recovered", t) :
                    ok \in BOOLEAN }
       ELSE Filter(w, nodeAnn, c, fencingState, t)

DoGetNode(w, res) == Logged(w, Op("getNode", NoPatch, NodeName, 0, res))

\* lines 73-295: the ways one call of Reconcile at time t can end
Reconcile(w, t) ==
    {Return(DoGetNode(w, "error"), TRUE)}
    \cup
    (IF ~nodeExists THEN {Return(DoGetNode(w, "notfound"), FALSE)}
     ELSE LET i == GetNodeCondition(conds, "Ready")
              w1 == DoGetNode(w, "ok")
          IN IF i = 0 THEN {Return(w1, FALSE)} ELSE Triage(w1, ann, conds[i], t))

\* ------------------------------------------------------------ the passes

Idle ==
    [kind |-> "idle", exists |-> FALSE, ann |-> EmptyMap, conds |-> <<>>, jobs |-> EmptyMap,
     pendingAt |-> 0, again |-> FALSE, ops |-> <<>>, err |-> FALSE]

\* The timestamp of the pending period in force after a pass.
PendingAtAfter(r) ==
    IF Lookup(r.ann, StateKey) # "pending" THEN 0
    ELSE IF \E i \in 1..Len(r.ops) :
                /\ r.ops[i].kind = "patch"
                /\ r.ops[i].res = "ok"
                /\ StateKey \in DOMAIN r.ops[i].patch.set
         THEN now
         ELSE pendingAt

ReconcilePass ==
    \E r \in Reconcile(World, now) :
        /\ ann' = r.ann
        /\ jobs' = r.jobs
        /\ timers' = r.timers
        /\ pendingAt' = PendingAtAfter(r)
        /\ pass' = [kind |-> "reconcile", exists |-> nodeExists, ann |-> ann,
                    conds |-> conds, jobs |-> jobs, pendingAt |-> pendingAt,
                    again |-> (pass.kind = "reconcile"), ops |-> r.ops, err |-> r.err]
        /\ UNCHANGED <<nodeExists, conds, now, queue, built>>

\* lines 215-227: a goroutine wakes up and patches the node, whatever became of it;
\* the error is dropped.
TimerFire ==
    \E at \in timers, ok \in BOOLEAN :
        /\ now >= at
        /\ LET w == DoPatch(World, TimerPatch, ok /\ nodeExists)
           IN /\ ann' = w.ann
              /\ pass' = [Idle EXCEPT !.kind = "timer", !.exists = nodeExists, !.ann = ann,
                                      !.conds = conds, !.jobs = jobs,
                                      !.pendingAt = pendingAt, !.ops = w.ops]
        /\ timers' = timers \ {at}
        /\ UNCHANGED <<nodeExists, conds, jobs, now, pendingAt, queue, built>>

\* ------------------------------------------------------- the environment

Tick ==
    /\ now < StartTime + MaxTicks
    /\ now' = now + 1
    /\ pass' = Idle
    /\ UNCHANGED <<nodeExists, ann, conds, jobs, timers, pendingAt, queue, built>>

\* The kubelet or the node lifecycle controller rewrites the conditions.
SetConditions ==
    \E cs \in ConditionLists \ {conds} :
        /\ nodeExists
        /\ conds' = cs
        /\ pass' = Idle
        /\ UNCHANGED <<nodeExists, ann, jobs, timers, now, pendingAt, queue, built>>

\* The job controller reports a running Job finished.
JobFinishes ==
    \E n \in DOMAIN jobs, c \in {"Complete", "Failed"} :
        /\ jobs[n] = <<>>
        /\ jobs' = [jobs EXCEPT ![n] = <<[type |-> c, status |-> "True", reason |-> ""]>>]
        /\ pass' = Idle
        /\ UNCHANGED <<nodeExists, ann, conds, timers, now, pendingAt, queue, built>>

\* The fencing job's after-hook, or an operator, marks the node fenced.
MarkFenced ==
    /\ nodeExists
    /\ Lookup(ann, StateKey) # "fenced"
    /\ ann' = MergePatch(ann, [set |-> (StateKey :> "fenced"), del |-> {}])
    /\ pendingAt' = 0
    /\ pass' = Idle
    /\ UNCHANGED <<nodeExists, conds, jobs, timers, now, queue, built>>

\* An operator clears the fencing state by hand.
ClearState ==
    /\ nodeExists
    /\ StateKey \in DOMAIN ann
    /\ ann' = MergePatch(ann, [set |-> EmptyMap, del |-> {StateKey}])
    /\ pendingAt' = 0
    /\ pass' = Idle
    /\ UNCHANGED <<nodeExists, conds, jobs, timers, now, queue, built>>

ConfigValues(k) ==
    IF k = EnabledKey THEN EnabledValues
    ELSE IF k = TemplateKey THEN TemplateValues
    ELSE TimeoutValues

\* An operator sets or removes one of the node's configuration annotations.
Annotate ==
    \E k \in {EnabledKey, TemplateKey, TimeoutKey} :
        /\ nodeExists
        /\ \/ \E v \in ConfigValues(k) \ {Lookup(ann, k)} :
                ann' = MergePatch(ann, [set |-> (k :> v), del |-> {}])
           \/ /\ k \in DOMAIN ann
              /\ ann' = MergePatch(ann, [set |-> EmptyMap, del |-> {k}])
        /\ pass' = Idle
        /\ UNCHANGED <<nodeExists, conds, jobs, timers, now, pendingAt, queue, built>>

\* The node is deleted; its Jobs, which it owns, go with it.
DeleteNode ==
    /\ nodeExists
    /\ nodeExists' = FALSE
    /\ ann' = EmptyMap
    /\ conds' = <<>>
    /\ jobs' = EmptyMap
    /\ pendingAt' = 0
    /\ pass' = Idle
    /\ UNCHANGED <<timers, now, queue, built>>

\* A node of that name joins, possibly with its configuration annotations.
CreateNode ==
    /\ ~nodeExists
    /\ nodeExists' = TRUE
    /\ \E e \in BOOLEAN :
        ann' = IF e THEN (EnabledKey :> "true") ELSE EmptyMap
    /\ conds' = <<>>
    /\ pass' = Idle
    /\ UNCHANGED <<jobs, timers, now, pendingAt, queue, built>>

\* ------------------------------------------------------ specifications

\* A node that has neither fencing/state nor fencing/timestamp, configured one way
\* or another.
Init ==
    /\ nodeExists = TRUE
    /\ \E e \in {"true", "false"}, to \in TimeoutValues \cup {""}, tn \in TemplateValues \cup {""} :
        ann = [k \in {EnabledKey} \cup (IF to = "" THEN {} ELSE {TimeoutKey})
                     \cup (IF tn = "" THEN {} ELSE {TemplateKey}) |->
                 IF k = EnabledKey THEN e ELSE IF k = TimeoutKey THEN to ELSE tn]
    /\ conds \in ConditionLists
    /\ jobs = EmptyMap
    /\ timers = {}
    /\ now = StartTime
    /\ pendingAt = 0
    /\ pass = Idle
    /\ queue = TRUE
    /\ built = NotBuilt

\* The engine and what it watches: no one else writes the node's annotations.
NextEngine ==
    \/ ReconcilePass
    \/ TimerFire
    \/ Tick
    \/ SetConditions
    \/ JobFinishes

\* The engine, the after-hook and the operators who write fencing/state, and the
\* node's coming and going.
Next ==
    \/ NextEngine
    \/ MarkFenced
    \/ ClearState
    \/ DeleteNode
    \/ CreateNode

\* The engine and the operators who edit the node's configuration annotations.
NextConfig ==
    \/ NextEngine
    \/ Annotate

Spec == Init /\ [][Next]_vars

SpecEngine == Init /\ [][NextEngine]_vars

SpecConfig == Init /\ [][NextConfig]_vars

\* newJobForNode alone: a node and a PodTemplate annotated one way or another, and
\* the Job built from them.
InitBuilder ==
    /\ nodeExists = TRUE
    /\ ann \in BuilderNodeAnnotations
    /\ conds = <<Condition("Ready", "Unknown", NodeStatusUnknown)>>
    /\ jobs = EmptyMap
    /\ timers = {}
    /\ now = StartTime
    /\ pendingAt = 0
    /\ pass = Idle
    /\ queue = FALSE
    /\ built \in [tmpl : BuilderTemplates, job : {NoJob}]

Build ==
    /\ built.job = NoJob
    /\ built' = [built EXCEPT !.job = newJobForNode(ann, built.tmpl)]
    /\ UNCHANGED <<nodeExists, ann, conds, jobs, timers, now, pendingAt, pass, queue>>

NextBuilder == Build

SpecBuilder == InitBuilder /\ [][NextBuilder]_vars

\* The engine as the controller runtime drives it when every call succeeds: a pass
\* runs when the node's key is queued, a patch that changes the node queues it
\* again, the informer's resync queues it now and then, and time passes while the
\* queue is empty.
LiveReconcile ==
    /\ queue
    /\ \E r \in Reconcile(World, now) :
        /\ \A i \in 1..Len(r.ops) : r.ops[i].res # "error"
        /\ ann' = r.ann
        /\ jobs' = r.jobs
        /\ timers' = r.timers
        /\ pendingAt' = PendingAtAfter(r)
        /\ pass' = [kind |-> "reconcile", exists |-> nodeExists, ann |-> ann,
                    conds |-> conds, jobs |-> jobs, pendingAt |-> pendingAt,
                    again |-> (pass.kind = "reconcile"), ops |-> r.ops, err |-> r.err]
        /\ queue' = (r.ann # ann)
    /\ UNCHANGED <<nodeExists, conds, now, built>>

LiveTimer ==
    \E at \in timers :
        /\ now >= at
        /\ LET w == DoPatch(World, TimerPatch, TRUE)
           IN /\ ann' = w.ann
              /\ pass' = [Idle EXCEPT !.kind = "timer", !.exists = nodeExists, !.ann = ann,
                                      !.conds = conds, !.jobs = jobs,
                                      !.pendingAt = pendingAt, !.ops = w.ops]
              /\ queue' = (queue \/ w.ann # ann)
        /\ timers' = timers \ {at}
        /\ UNCHANGED <<nodeExists, conds, jobs, now, pendingAt, built>>

LiveTick == ~queue /\ Tick

LiveResync ==
    /\ ~queue
    /\ queue' = TRUE
    /\ pass' = Idle
    /\ UNCHANGED <<nodeExists, ann, conds, jobs, timers, now, pendingAt, built>>

NextLive ==
    \/ LiveReconcile
    \/ LiveTimer
    \/ LiveTick
    \/ LiveResync
    \/ JobFinishes

SpecLive ==
    /\ Init
    /\ [][NextLive]_vars
    /\ WF_vars(LiveReconcile)
    /\ WF_vars(LiveTimer)
    /\ SF_vars(LiveTick)

\* -------------------------------------------------- reading the last pass

Reconciled == pass.kind = "reconcile"

\* The pass got the node from the store.
Fetched ==
    /\ Reconciled
    /\ Len(pass.ops) >= 1
    /\ pass.ops[1].kind = "getNode"
    /\ pass.ops[1].res = "ok"

\* The Ready condition the pass read (type "" when the node had none).
PassReady ==
    LET i == GetNodeCondition(pass.conds, "Ready")
    IN IF i = 0 THEN Condition("", "", "") ELSE pass.conds[i]

\* The fencing/state the pass read at line 88.
ReadState == Lookup(pass.ann, StateKey)

IsWrite(op) == op.kind \in {"patch", "create", "delete"}

OpsOf(kind) == { i \in 1..Len(pass.ops) : pass.ops[i].kind = kind }

\* No call of the pass failed.
Clean == \A i \in 1..Len(pass.ops) : pass.ops[i].res # "error"

\* The pass issued a patch that sets fencing/state to v.
PatchedStateTo(v) ==
    \E i \in OpsOf("patch") :
        StateKey \in DOMAIN pass.ops[i].patch.set /\ pass.ops[i].patch.set[StateKey] = v

\* The node's own fencing/timeout, as Atoi reads it.
NodeTimeout == ParseInt(Lookup(pass.ann, TimeoutKey)).val

\* The PodTemplate the pass went on with: the one it got, the empty one otherwise.
PassTemplate ==
    IF \E i \in OpsOf("getTemplate") : pass.ops[i].res = "ok"
    THEN Templates[TemplateName(pass.ann)]
    ELSE EmptyTemplate

\* The pass went past the template lookup with a node it is to fence: Ready of an
\* unreachable node, fencing enabled, a template found or the lookup failed.
PastTemplate ==
    /\ Fetched
    /\ PassReady.reason = NodeStatusUnknown
    /\ PassReady.status # "True"
    /\ ReadState # "fenced"
    /\ Lookup(pass.ann, EnabledKey) = "true"
    /\ \E i \in OpsOf("getTemplate") : pass.ops[i].res # "notfound"

\* The timeout the pass resolved at lines 171-178.
PassTimeout == ParseInt(TimeoutStr(pass.ann, PassTemplate))

\* ------------------------------------------------------------------ C1

\* C1 (as claimed): a node with reason NodeStatusUnknown, fencing/enabled=true and a
\* timeout T > 0 is first patched to pending with timestamp = now, and, whatever
\* passes, readiness flaps and firings of old timers come between, it is not patched to
\* started, and no job is created for it, before T seconds have passed since the
\* timestamp of its current pending period.
C1_GracePeriod ==
    (Fetched /\ Enabled(pass.ann) /\ NodeTimeout > 0) =>
        /\ (ReadState = "" /\ TimestampKey \notin DOMAIN pass.ann /\ OpsOf("patch") # {}) =>
              \A i \in OpsOf("patch") : pass.ops[i].patch = PendingPatch(now)
        /\ (pass.pendingAt > 0 /\ Lookup(ann, StateKey) = "started") =>
              now - pass.pendingAt >= NodeTimeout
        /\ pass.pendingAt > 0 => OpsOf("create") = {}

\* ------------------------------------------------------------------ C2

\* The case of C2: a clean pass over a node with no fencing/state, reason
\* NodeStatusUnknown, fencing/enabled=true, fencing/timeout "0" or absent, and the
\* default template (no timeout annotation, no pod name).
C2_Case ==
    /\ Fetched /\ Clean
    /\ StateKey \notin DOMAIN pass.ann
    /\ PassReady.reason = NodeStatusUnknown
    /\ Enabled(pass.ann)
    /\ Lookup(pass.ann, TimeoutKey) \in {"", "0"}
    /\ TemplateKey \notin DOMAIN pass.ann

\* C2 (as claimed): in that case a single pass both sets fencing/state=started and
\* creates the job fence-<nodeName>.
C2_OnePassStartsAndCreates ==
    C2_Case =>
        /\ Lookup(ann, StateKey) = "started"
        /\ \E i \in OpsOf("create") :
              pass.ops[i].job = "fence-" \o NodeName /\ pass.ops[i].res = "ok"

\* C2 (amended): in that case the pass sets fencing/state=started, leaves no
\* timestamp and issues no job create, delete or timer; the job fence-<nodeName> is
\* created by a later pass, one that reads started and finds no job of that name.
C2_StartThenCreate ==
    /\ C2_Case =>
          /\ Lookup(ann, StateKey) = "started"
          /\ TimestampKey \notin DOMAIN ann
          /\ OpsOf("create") = {} /\ OpsOf("delete") = {} /\ OpsOf("arm") = {}
    /\ ( /\ Fetched /\ Clean
         /\ ReadState = "started"
         /\ PassReady.reason = NodeStatusUnknown
         /\ Enabled(pass.ann)
         /\ TemplateKey \notin DOMAIN pass.ann
         /\ "fence-" \o NodeName \notin DOMAIN pass.jobs ) =>
          /\ \E i \in OpsOf("create") :
                pass.ops[i].job = "fence-" \o NodeName /\ pass.ops[i].res = "ok"
          /\ "fence-" \o NodeName \in DOMAIN jobs
          /\ ann = pass.ann

C2_Witness == C2_Case /\ Lookup(ann, StateKey) = "started" /\ jobs = EmptyMap

\* ------------------------------------------------------------------ C3

\* The same call: kind, patch and job, whatever came of it.
SameCall(a, b) == a.kind = b.kind /\ a.patch = b.patch /\ a.job = b.job

\* C3 (as claimed): of two passes in a row, with nothing else in between and no call
\* of either failing, the second issues no patch, no job create, no job delete and
\* arms no timer.
C3_SecondPassSilent ==
    [][(Reconciled /\ Clean /\ pass'.kind = "reconcile"
          /\ \A j \in 1..Len(pass'.ops) : pass'.ops[j].res # "error") =>
          \A j \in 1..Len(pass'.ops) :
              ~IsWrite(pass'.ops[j]) /\ pass'.ops[j].kind # "arm"]_vars

\* C3 (amended): of two passes in a row, with nothing else in between, the second
\* repeats no patch, job create or job delete that the first one carried out.
C3_NoRepeat ==
    [][(Reconciled /\ pass'.kind = "reconcile") =>
          \A i \in 1..Len(pass.ops), j \in 1..Len(pass'.ops) :
              (IsWrite(pass.ops[i]) /\ pass.ops[i].res = "ok") =>
                  ~SameCall(pass.ops[i], pass'.ops[j])]_vars

\* A second pass in a row that still writes: it takes the machine's next step.
C3_Witness ==
    Reconciled /\ pass.again /\ \E i \in 1..Len(pass.ops) : IsWrite(pass.ops[i])

\* ------------------------------------------------------------------ C4

NoWrites == \A i \in 1..Len(pass.ops) : ~IsWrite(pass.ops[i]) /\ pass.ops[i].kind # "arm"

\* C4 (as claimed): a pass that reads fencing/state=fenced issues no patch, no job
\* create and no job delete, whatever the readiness and the other annotations.
C4_FencedSilent ==
    (Fetched /\ ReadState = "fenced") => NoWrites

\* C4 (amended): a pass that reads fencing/state=fenced while the Ready condition is
\* absent or its status is not True issues no patch, no job create and no job
\* delete, and leaves the node fenced.
C4_FencedSilentUnlessReady ==
    (Fetched /\ ReadState = "fenced" /\ PassReady.status # "True") =>
        NoWrites /\ ann = pass.ann /\ jobs = pass.jobs

C4_Witness ==
    /\ Fetched /\ Clean
    /\ ReadState = "fenced"
    /\ TimestampKey \in DOMAIN pass.ann
    /\ PassReady.reason = NodeStatusUnknown /\ PassReady.status = "Unknown"
    /\ Enabled(pass.ann)

\* ------------------------------------------------------------------ C5

\* A pass that saw Ready=True with fencing/state pending or fenced.
C5_Case ==
    /\ Fetched
    /\ PassReady.status = "True"
    /\ ReadState \in {"pending", "fenced"}

\* C5 (as claimed): after such a pass fencing/state and fencing/timestamp are both
\* absent, whatever came of its API calls.
C5_RecoveryClears ==
    C5_Case => StateKey \notin DOMAIN ann /\ TimestampKey \notin DOMAIN ann

\* C5 (amended): such a pass issues, as its first write, one patch that removes
\* fencing/state and fencing/timestamp; when that patch succeeds both are absent
\* after the pass, and when it fails (the error is logged and dropped) the
\* annotations are as they were.
C5_RecoveryClearsIfPatched ==
    C5_Case =>
        /\ Cardinality(OpsOf("patch")) = 1
        /\ \A i \in OpsOf("patch") :
              /\ pass.ops[i].patch.set = EmptyMap
              /\ \A j \in 1..(i - 1) : ~IsWrite(pass.ops[j])
              /\ pass.ops[i].res = "ok" =>
                    StateKey \notin DOMAIN ann /\ TimestampKey \notin DOMAIN ann
              /\ pass.ops[i].res # "ok" => ann = pass.ann
        /\ ~pass.err

C5_Witness ==
    /\ C5_Case
    /\ ReadState = "pending"
    /\ TimestampKey \in DOMAIN pass.ann
    /\ TimestampKey \notin DOMAIN ann
    /\ StateKey \notin DOMAIN ann

\* ------------------------------------------------------------------ C6

\* A clean pass over a node the kubelet reports Ready.
C6_Case ==
    /\ Fetched /\ Clean
    /\ PassReady.status = "True"
    /\ PassReady.reason # NodeStatusUnknown

\* C6 (as claimed): whatever the persisted state (none, pending, started, fenced),
\* once the node is Ready a pass resets it: the node has no fencing/state after it.
C6_ReadyResets == C6_Case => StateKey \notin DOMAIN ann

\* C6 (amended): once the node is Ready a pass resets it from pending and from
\* fenced, and leaves it without a state if it had none; a node in state started is
\* not reset: the pass writes nothing and the node stays started, its job in place.
C6_ReadyResetsPendingAndFenced ==
    C6_Case =>
        /\ ReadState \in {"", "pending", "fenced"} => StateKey \notin DOMAIN ann
        /\ ReadState = "started" =>
              NoWrites /\ Lookup(ann, StateKey) = "started" /\ jobs = pass.jobs

C6_Witness ==
    C6_Case /\ ReadState = "started" /\ Lookup(ann, StateKey) = "started" /\ jobs # EmptyMap

\* ------------------------------------------------------------------ C7

\* C7 (as claimed): at most one remediation job exists for the node, whatever
\* passes, job status changes and edits of the node's annotations came before; the
\* engine creates no job while one it created earlier is still there.
C7_OneJobPerNode ==
    /\ Cardinality(DOMAIN jobs) <= 1
    /\ Reconciled =>
          \A i \in OpsOf("create"), n \in DOMAIN pass.jobs :
              \E j \in OpsOf("delete") :
                  j < i /\ pass.ops[j].job = n /\ pass.ops[j].res = "ok"

\* ------------------------------------------------------------------ C8

\* The pass read started and its Get of the job found one with a Complete or a
\* Failed condition.
C8_Case ==
    /\ Reconciled
    /\ ReadState = "started"
    /\ \E i \in OpsOf("getJob") :
          /\ pass.ops[i].res = "ok"
          /\ pass.ops[i].job \in DOMAIN pass.jobs
          /\ ~StillRunning(pass.jobs[pass.ops[i].job])

\* C8: in such a pass the engine deletes that job and then, the delete done,
\* creates a job of the same name in the same pass; the delete comes before the
\* create (and a Complete and a Failed job are treated alike).
C8_DeleteThenCreate ==
    C8_Case =>
        \A i \in OpsOf("getJob") :
            /\ Len(pass.ops) > i
            /\ pass.ops[i + 1].kind = "delete"
            /\ pass.ops[i + 1].job = pass.ops[i].job
            /\ \A j \in OpsOf("create") : j > i + 1
            /\ pass.ops[i + 1].res = "ok" =>
                  /\ Len(pass.ops) = i + 2
                  /\ pass.ops[i + 2].kind = "create"
                  /\ pass.ops[i + 2].job = pass.ops[i].job
            /\ (pass.ops[i + 1].res = "ok" /\ Len(pass.ops) >= i + 2
                  /\ pass.ops[i + 2].res = "ok") =>
                  /\ pass.ops[i].job \in DOMAIN jobs
                  /\ jobs[pass.ops[i].job] = <<>>

C8_Witness ==
    /\ C8_Case /\ Clean
    /\ \E n \in DOMAIN pass.jobs : GetJobCondition(pass.jobs[n], "Failed") # 0
    /\ \E n \in DOMAIN jobs : jobs[n] = <<>>

\* ------------------------------------------------------------------ C9

\* C9: every patch Reconcile or the timer issues sets fencing/state to pending or
\* to started, or removes it, or leaves it alone: never to fenced.
C9_NeverWritesFenced ==
    \A i \in OpsOf("patch") :
        StateKey \in DOMAIN pass.ops[i].patch.set =>
            pass.ops[i].patch.set[StateKey] \in {"pending", "started"}

\* The engine leaves a fenced state by removing it, and that is all it does to it.
C9_Witness ==
    /\ Fetched
    /\ ReadState = "fenced"
    /\ \E i \in OpsOf("patch") : pass.ops[i].res = "ok" /\ StateKey \in pass.ops[i].patch.del

\* ------------------------------------------------------------------ C10

\* C10: from a node with neither annotation, whatever the engine does (passes and
\* timers, each patch done or failed), fencing/timestamp is there only while
\* fencing/state=pending: a patch to started or to none takes it away.
C10_TimestampOnlyWhilePending ==
    TimestampKey \in DOMAIN ann => Lookup(ann, StateKey) = "pending"

\* A pass that takes a pending node with its timestamp to started.
C10_Witness ==
    /\ Reconciled
    /\ ReadState = "pending"
    /\ TimestampKey \in DOMAIN pass.ann
    /\ Lookup(ann, StateKey) = "started"
    /\ TimestampKey \notin DOMAIN ann

\* ------------------------------------------------------------------ C11

C11_NodeNotFound ==
    Reconciled /\ Len(pass.ops) >= 1 /\ pass.ops[1].res = "notfound"

C11_ReadyAbsent == Fetched /\ PassReady.type = ""

C11_TemplateNotFound ==
    Reconciled /\ \E i \in OpsOf("getTemplate") : pass.ops[i].res = "notfound"

\* The pass reached the Atoi of line 179 and it failed.
C11_TimeoutUnparsable == PastTemplate /\ ReadState # "started" /\ ~PassTimeout.ok

C11_BenignStop ==
    C11_NodeNotFound \/ C11_ReadyAbsent \/ C11_TemplateNotFound \/ C11_TimeoutUnparsable

\* C11 (as claimed): a pass that finds no node, no Ready condition, no PodTemplate or
\* a timeout that is no number returns without error and issues no annotation
\* patch, no job create and no job delete.
C11_BenignStopsAreNoOps ==
    C11_BenignStop => (~pass.err /\ NoWrites)

\* C11 (amended): such a pass returns without error, makes no call after the one
\* that stops it, creates and deletes no job and arms no timer; the one patch it
\* can have issued is the recovery patch of a Ready node in state pending or fenced,
\* sent before the PodTemplate was looked up and found missing.
C11_BenignStopsAfterRecoveryPatch ==
    C11_BenignStop =>
        /\ ~pass.err
        /\ jobs = pass.jobs
        /\ \A i \in 1..Len(pass.ops) :
              (IsWrite(pass.ops[i]) \/ pass.ops[i].kind = "arm") =>
                  /\ C11_TemplateNotFound
                  /\ PassReady.status = "True"
                  /\ ReadState \in {"pending", "fenced"}
                  /\ i = 2
                  /\ pass.ops[i].kind = "patch"
                  /\ pass.ops[i].patch = [set |-> EmptyMap, del |-> {StateKey, TimestampKey}]
        /\ C11_NodeNotFound => Len(pass.ops) = 1
        /\ C11_ReadyAbsent => Len(pass.ops) = 1
        /\ C11_TemplateNotFound => pass.ops[Len(pass.ops)].kind = "getTemplate"
        /\ C11_TimeoutUnparsable =>
              (pass.ops[Len(pass.ops)].kind = "getTemplate" /\ ann = pass.ann)

\* A Ready node in state pending or fenced whose PodTemplate is not there: the pass
\* clears the state and stops at the lookup.
C11_Witness ==
    /\ C11_TemplateNotFound
    /\ Len(pass.ops) = 3
    /\ pass.ops[2].kind = "patch"
    /\ pass.ops[2].res = "ok"
    /\ StateKey \notin DOMAIN ann
    /\ ~pass.err

\* ------------------------------------------------------------------ C12

\* A call whose failure the pass has to return: a patch that sets fencing/state
\* (pending or started), the delete of a finished job, a job create.
C12_MustSucceed(op) ==
    \/ op.kind = "patch" /\ StateKey \in DOMAIN op.patch.set
    \/ op.kind = "delete" /\ ReadState = "started"
    \/ op.kind = "create"

\* C12: when a patch to pending or to started, the delete of the execution phase or
\* a job create fails, the pass returns the error and the failed call is its last:
\* no create after a failed delete, no timer and no started patch after a failed
\* pending patch; the node and the jobs are as the pass found them up to that call.
C12_ErrorsStopThePass ==
    Reconciled =>
        \A i \in 1..Len(pass.ops) :
            (C12_MustSucceed(pass.ops[i]) /\ pass.ops[i].res = "error") =>
                /\ pass.err
                /\ i = Len(pass.ops)
                /\ pass.ops[i].kind = "delete" => jobs = pass.jobs
                /\ pass.ops[i].kind = "patch" => (ann = pass.ann /\ jobs = pass.jobs)

\* The delete of a finished job fails: the pass ends there, the job still in place.
C12_Witness ==
    /\ Reconciled
    /\ ReadState = "started"
    /\ pass.err
    /\ pass.ops[Len(pass.ops)].kind = "delete"
    /\ pass.ops[Len(pass.ops)].res = "error"
    /\ pass.ops[Len(pass.ops)].job \in DOMAIN jobs

\* ------------------------------------------------------------------ C13

Built == built.job # NoJob

\* What the three-level precedence gives for fencing/mode.
C13_NodeThenTemplateThenDefault ==
    IF ModeKey \in DOMAIN ann THEN ann[ModeKey]
    ELSE IF ModeKey \in DOMAIN built.tmpl.annotations THEN built.tmpl.annotations[ModeKey]
    ELSE "flush"

\* C13 (as claimed): for every node and template, the built job's fencing/mode is the
\* node's annotation if present, else the template's if present, else "flush".
C13_ModePrecedence ==
    Built => built.job.annotations[ModeKey] = C13_NodeThenTemplateThenDefault

\* C13 (amended): the built job's fencing/mode is the fencing/mode annotation of the
\* template's embedded pod if it has one; else the node's annotation if present,
\* else the template's if present, else "flush".
C13_ModePrecedenceUnderPod ==
    Built =>
        built.job.annotations[ModeKey] =
            IF ModeKey \in DOMAIN built.tmpl.podAnnotations
            THEN built.tmpl.podAnnotations[ModeKey]
            ELSE C13_NodeThenTemplateThenDefault

\* Node and template both give a mode, the embedded pod none: the job has the node's.
C13_Witness ==
    /\ Built
    /\ ModeKey \in DOMAIN ann
    /\ ModeKey \in DOMAIN built.tmpl.annotations
    /\ ModeKey \notin DOMAIN built.tmpl.podAnnotations
    /\ built.job.annotations[ModeKey] = ann[ModeKey]
    /\ ann[ModeKey] # built.tmpl.annotations[ModeKey]

\* ------------------------------------------------------------------ C14

\* The node is unreachable, fencing is enabled, its PodTemplate exists and its
\* timeout is a number.
C14_ToBeFenced ==
    /\ nodeExists
    /\ GetNodeCondition(conds, "Ready") # 0
    /\ conds[GetNodeCondition(conds, "Ready")].reason = NodeStatusUnknown
    /\ Lookup(ann, EnabledKey) = "true"
    /\ TemplateName(ann) \in DOMAIN Templates
    /\ ParseInt(TimeoutStr(ann, Templates[TemplateName(ann)])).ok

C14_Timeout == ParseInt(TimeoutStr(ann, Templates[TemplateName(ann)])).val

C14_JobExists == JobName(Templates[TemplateName(ann)]) \in DOMAIN jobs

\* C14: a node that stays unreachable with fencing enabled, an existing PodTemplate
\* and a numeric timeout, every call succeeding, every change of its annotations
\* queueing a pass and every timer firing in the end, goes from no fencing/state to
\* fencing/state=started with its job created; and to pending on the way when the
\* timeout is above 0.
C14_EventuallyFencing ==
    /\ (C14_ToBeFenced /\ StateKey \notin DOMAIN ann)
          ~> (Lookup(ann, StateKey) = "started" /\ C14_JobExists)
    /\ (C14_ToBeFenced /\ StateKey \notin DOMAIN ann /\ C14_Timeout > 0)
          ~> (Lookup(ann, StateKey) = "pending")

\* The job of a node that waited its timeout out: the pending period began, the
\* clock went past its end, the node is started and the job is there.
C14_Witness ==
    /\ C14_ToBeFenced
    /\ C14_Timeout > 0
    /\ now >= StartTime + C14_Timeout
    /\ Lookup(ann, StateKey) = "started"
    /\ C14_JobExists

\* ------------------------------------------------------------------ C15

\* The pass moved the fencing on: a patch to pending or to started, a timer, a job
\* create (issued, done or not).
C15_Fences ==
    \/ PatchedStateTo("pending")
    \/ PatchedStateTo("started")
    \/ OpsOf("arm") # {}
    \/ OpsOf("create") # {}

\* C15: every pass that issues a patch setting fencing/state to pending or started,
\* arms a timer or creates a job has read a Ready condition with reason
\* NodeStatusUnknown and fencing/enabled exactly "true".
C15_FencingGuard ==
    (Reconciled /\ C15_Fences) =>
        /\ PassReady.reason = NodeStatusUnknown
        /\ EnabledKey \in DOMAIN pass.ann
        /\ pass.ann[EnabledKey] = "true"

\* An unreachable node with fencing enabled gets its job.
C15_Witness ==
    /\ Reconciled
    /\ \E i \in OpsOf("create") : pass.ops[i].res = "ok"
    /\ PassReady.reason = NodeStatusUnknown
    /\ Lookup(pass.ann, EnabledKey) = "true"

\* ------------------------------------------------------------------ C16

\* A pass on the recovery path whose job delete, if it made one, did not fail.
C16_Case ==
    /\ Fetched
    /\ PassReady.status = "True"
    /\ ReadState \in {"pending", "fenced"}
    /\ \A i \in OpsOf("delete") : pass.ops[i].res # "error"

\* C16 (as claimed): after a pass on the recovery path whose delete call does not
\* fail, no job of the node is left: a job the pass found does not survive it.
C16_NoJobSurvivesRecovery ==
    C16_Case => \A n \in DOMAIN pass.jobs : n \notin DOMAIN jobs

\* C16 (amended): after a pass on the recovery path that looked a job up without
\* error and whose delete call, if any, did not fail, no job of the name it looked
\* up exists, and the pass returns no error. The name is the one built from the
\* PodTemplate the pass got, or from an empty template when the Get failed.
C16_LookedUpJobIsGone ==
    C16_Case =>
        /\ ~pass.err
        /\ \A i \in OpsOf("getJob") :
              pass.ops[i].res # "error" =>
                  /\ pass.ops[i].job = JobName(PassTemplate)
                  /\ pass.ops[i].job \notin DOMAIN jobs
                  /\ pass.ops[i].job \in DOMAIN pass.jobs =>
                        (i + 1 \in OpsOf("delete") /\ pass.ops[i + 1].job = pass.ops[i].job)

\* The job of a node that was fenced and came back Ready is deleted.
C16_Witness ==
    /\ C16_Case
    /\ pass.jobs # EmptyMap
    /\ jobs = EmptyMap
    /\ \E i \in OpsOf("delete") : pass.ops[i].res = "ok"

\* ------------------------------------------------------------------ C17

\* A pass on an unreachable node with fencing enabled that reads fencing/state=pending
\* with a timestamp, and resolves a timeout above 0.
C17_Case ==
    /\ PastTemplate
    /\ ReadState = "pending"
    /\ ParseInt(Lookup(pass.ann, TimestampKey)).ok
    /\ PassTimeout.ok
    /\ PassTimeout.val > 0

C17_Elapsed == now - ParseInt(Lookup(pass.ann, TimestampKey)).val

C17_LastOp == pass.ops[Len(pass.ops)]

\* C17: such a pass, once the timeout has elapsed since the timestamp, issues the
\* patch that sets fencing/state=started and removes the timestamp (and no other
\* write), whether or not a timer has fired; before that it leaves fencing/state and
\* the timestamp as they are and only arms a timer for the end of the timeout.
C17_TimerLossIsSafe ==
    C17_Case =>
        IF C17_Elapsed >= PassTimeout.val
        THEN /\ C17_LastOp.kind = "patch"
             /\ C17_LastOp.patch = [set |-> (StateKey :> "started"), del |-> {TimestampKey}]
             /\ \A i \in 1..(Len(pass.ops) - 1) :
                   ~IsWrite(pass.ops[i]) /\ pass.ops[i].kind # "arm"
             /\ pass.err = (C17_LastOp.res # "ok")
             /\ C17_LastOp.res = "ok" =>
                   (Lookup(ann, StateKey) = "started" /\ TimestampKey \notin DOMAIN ann)
        ELSE /\ \A i \in 1..Len(pass.ops) : ~IsWrite(pass.ops[i])
             /\ ann = pass.ann
             /\ ~pass.err
             /\ C17_LastOp.kind = "arm"
             /\ C17_LastOp.at = now - C17_Elapsed + PassTimeout.val

\* The timeout has elapsed and the timestamp is still on the node: no timer took it
\* away, and the pass starts the fencing all the same.
C17_Witness ==
    /\ C17_Case
    /\ C17_Elapsed >= PassTimeout.val
    /\ C17_LastOp.res = "ok"
    /\ Lookup(ann, StateKey) = "started"

\* ------------------------------------------------------------------ C18

\* A pass that reads fencing/state=started and gets the node's job, which has
\* neither a Complete nor a Failed condition.
C18_Case ==
    /\ Fetched
    /\ ReadState = "started"
    /\ \E i \in OpsOf("getJob") :
          /\ pass.ops[i].res = "ok"
          /\ pass.ops[i].job \in DOMAIN pass.jobs
          /\ \A j \in 1..Len(pass.jobs[pass.ops[i].job]) :
                pass.jobs[pass.ops[i].job][j].type \notin {"Complete", "Failed"}

\* C18: such a pass issues no job delete, no job create and no annotation patch (and
\* arms no timer), leaves the node and the jobs as they are and returns no error.
C18_RunningJobLeftAlone ==
    C18_Case =>
        /\ NoWrites
        /\ ~pass.err
        /\ ann = pass.ann
        /\ jobs = pass.jobs
        /\ pass.ops[Len(pass.ops)].kind = "getJob"

\* The job created by an earlier pass is found running by this one.
C18_Witness ==
    /\ C18_Case
    /\ pass.again
    /\ jobs # EmptyMap
    /\ NoWrites

\* ------------------------------------------------------------------ C19

C19_EngineKeys == {StateKey, TimestampKey}

C19_Touched(p) == DOMAIN p.set \cup p.del

\* C19: a patch issued by Reconcile names no key but fencing/state and
\* fencing/timestamp, a patch issued by a timer names fencing/timestamp alone and
\* removes it; after a pass or a timer every other annotation of the node is as it
\* was, and after a timer fencing/state too.
C19_Frame ==
    pass.kind \in {"reconcile", "timer"} =>
        /\ \A i \in OpsOf("patch") :
              /\ C19_Touched(pass.ops[i].patch) \subseteq C19_EngineKeys
              /\ pass.kind = "timer" =>
                    (pass.ops[i].patch.set = EmptyMap /\ pass.ops[i].patch.del = {TimestampKey})
        /\ \A k \in (DOMAIN ann \cup DOMAIN pass.ann) \ C19_EngineKeys :
              k \in DOMAIN ann /\ k \in DOMAIN pass.ann /\ ann[k] = pass.ann[k]
        /\ pass.kind = "timer" =>
              /\ (StateKey \in DOMAIN ann) = (StateKey \in DOMAIN pass.ann)
              /\ Lookup(ann, StateKey) = Lookup(pass.ann, StateKey)

\* A timer takes the timestamp of a pending node away and leaves the rest.
C19_Witness ==
    /\ pass.kind = "timer"
    /\ TimestampKey \in DOMAIN pass.ann
    /\ TimestampKey \notin DOMAIN ann
    /\ Lookup(ann, StateKey) = "pending"
    /\ Lookup(ann, EnabledKey) = "true"

\* ------------------------------------------------------------------ C20

\* C20: a pass whose PodTemplate Get fails with an error other than NotFound issues
\* no patch that sets fencing/state to pending or started, arms no timer and creates
\* no job.
C20_TemplateErrorStops ==
    (Reconciled /\ \E i \in OpsOf("getTemplate") : pass.ops[i].res = "error") =>
        /\ ~PatchedStateTo("pending")
        /\ ~PatchedStateTo("started")
        /\ OpsOf("arm") = {}
        /\ OpsOf("create") = {}

====
